---- MODULE Spec2Model ----
(***************************************************************************)
(* LinkedIn keyword monitor: the search / cross-category deduplication     *)
(* loop (src/src/search.py), the screenshot capture batch                  *)
(* (src/src/screenshot.py) and the orchestrator main_async (src/main.py).  *)
(*                                                                         *)
(* A URL is a sequence of tokens; the token "linkedin.com" stands for the  *)
(* substring the code tests with `in`, the token "?" for the character at  *)
(* which str.split("?") cuts.                                              *)
(***************************************************************************)
EXTENDS Integers, Sequences, FiniteSets, TLC

VARIABLES
    pc,                 \* position of the single thread of control
    serpapi_key,        \* SearchConfig.serpapi_key is non-empty
    categories,         \* the categories argument: [none, names]
    dry_run,            \* args.dry_run
    no_screenshots,     \* args.no_screenshots
    target_categories,  \* search_all_categories: the resolved list
    cat_i,              \* search_all_categories: index of the loop over target_categories
    all_results,        \* the ResultSet: an insertion-ordered dict, category -> list of SearchResult
    seen_urls,          \* search_all_categories: running set of URLs already stored
    requests,           \* history: number of provider requests issued
    raw_of,             \* history: per category, the accepted normalized URLs the provider returned
    first_cat,          \* history: per URL, the category whose processing surfaced it first
    failed_ever,        \* history: categories with a failed provider request
    failed_last,        \* history: categories whose most recent provider request failed
    removed,            \* the "duplicates removed" count logged by the latest pass
    screenshots,        \* the CaptureOutcome: URL -> output path or None
    idx,                \* capture_all_screenshots: running file number
    cap_c,              \* capture_all_screenshots: index into results.items()
    cap_p,              \* capture_all_screenshots: index into the posts of that category
    output_path,        \* capture_screenshot: the path it was called with
    success,            \* value capture_screenshot returned to the batch
    playwright,         \* the playwright package: "unchecked", "loaded" or "missing"
    browser,            \* the browser session of the running capture: "none", "open", "closed"
    selector_i,         \* capture_screenshot: index into the popup selector list
    sessions,           \* the file numbers of the captures whose browser session is open
    files,              \* paths at which a snapshot file has been written
    calls,              \* history: one record per capture_screenshot call that returned
    capture_invoked,    \* history: capture_all_screenshots was called
    delivered,          \* history: what each send_email call was handed and what it returned
    reported,           \* print_results_summary was called
    exit_code,          \* value main_async returned, -1 before it returns
    hits,               \* a provider response handed to one search_category call
    parsed              \* what that search_category call returned

vars == <<pc, serpapi_key, categories, dry_run, no_screenshots, target_categories,
          cat_i, all_results, seen_urls, requests, raw_of, first_cat, failed_ever,
          failed_last, removed, screenshots, idx, cap_c, cap_p, output_path, success,
          playwright, browser, selector_i, sessions, files, calls, capture_invoked,
          delivered, reported, exit_code, hits, parsed>>

searchVars == <<target_categories, cat_i, all_results, seen_urls, requests, raw_of,
                first_cat, failed_ever, failed_last, removed>>
argVars == <<serpapi_key, categories, dry_run, no_screenshots>>
captureVars == <<screenshots, idx, cap_c, cap_p, output_path, success, playwright,
                 browser, selector_i, sessions, files, calls, capture_invoked>>
mainVars == <<delivered, reported, exit_code>>
parseVars == <<hits, parsed>>

-----------------------------------------------------------------------------
(* Bounds *)

MaxCats == 3    \* longest categories argument
MaxHits == 2    \* longest organic_results list of one provider response

-----------------------------------------------------------------------------
(* Values *)

None == "None"

\* The categories argument: None, or a list of names.
NoCategories == [none |-> TRUE, names |-> <<>>]

CategoryList(names) == [none |-> FALSE, names |-> names]

\* The absence marker of a CaptureOutcome entry (None); a path is never empty.
NoPath == <<>>

\* An empty dict keyed by URL.
EmptyOutcome == [u \in {} |-> NoPath]

\* The keys of KEYWORD_CATEGORIES in declaration order (two stand for the five).
KEYWORD_CATEGORIES == <<"A", "B">>

Known == {KEYWORD_CATEGORIES[k] : k \in 1..Len(KEYWORD_CATEGORIES)}

\* The names a caller may pass: the configured ones and one unknown name.
CategoryNames == Known \cup {"X"}

\* The links the provider may return in a raw hit.
RawLinks ==
    { <<"linkedin.com", "p1">>,
      <<"linkedin.com", "p1", "?", "trk">>,
      <<"linkedin.com", "p2">>,
      <<"example.com", "p1">> }

\* The popup selectors of capture_screenshot, in list order.
Selectors == <<"Dismiss", "modal__dismiss", "secondary-cta", "sign-in-dismiss">>

SeqsUpTo(S, n) == UNION {[1..k -> S] : k \in 0..n}

Min(S) == CHOOSE x \in S : \A y \in S : x <= y

Range(s) == {s[k] : k \in 1..Len(s)}

-----------------------------------------------------------------------------
(* src/src/search.py *)

Contains(url, token) == \E k \in 1..Len(url) : url[k] = token

\* url.split("?")[0]
SplitQuery(url) ==
    LET qs == {k \in 1..Len(url) : url[k] = "?"}
    IN  IF qs = {} THEN url ELSE SubSeq(url, 1, Min(qs) - 1)

clean_linkedin_url(url) ==
    IF Contains(url, "linkedin.com") THEN SplitQuery(url) ELSE url

SearchResult(url, category) == [url |-> url, category |-> category]

\* The loop over organic_results of search_category.
RECURSIVE ParseHits(_, _)
ParseHits(organic, category) ==
    IF organic = <<>> THEN <<>>
    ELSE LET url == clean_linkedin_url(Head(organic))
             rest == ParseHits(Tail(organic), category)
         IN  IF ~Contains(url, "linkedin.com") THEN rest
             ELSE <<SearchResult(url, category)>> \o rest

\* A provider response: the request failed, or it carries organic_results.
Responses ==
    {[ok |-> FALSE, organic |-> <<>>]}
        \cup {[ok |-> TRUE, organic |-> o] : o \in SeqsUpTo(RawLinks, MaxHits)}

search_category(category, response) ==
    IF ~response.ok THEN <<>> ELSE ParseHits(response.organic, category)

\* The normalized URLs a request can yield.
Urls == {clean_linkedin_url(l) : l \in {r \in RawLinks :
            Contains(clean_linkedin_url(r), "linkedin.com")}}

\* The mutant of Dedup: duplicates are looked up in the set of URLs seen
\* before this category, so a URL repeated within one list is kept twice.
RECURSIVE DedupAcrossOnly(_, _, _)
DedupAcrossOnly(results, seen, unique) ==
    IF results = <<>> THEN [seen |-> seen \cup {r.url : r \in Range(unique)},
                            unique |-> unique]
    ELSE IF Head(results).url \notin seen
         THEN DedupAcrossOnly(Tail(results), seen, Append(unique, Head(results)))
         ELSE DedupAcrossOnly(Tail(results), seen, unique)

\* The deduplication loop: each result whose url is not in seen_urls is
\* added to seen_urls and appended to unique.
RECURSIVE Dedup(_, _, _)
Dedup(results, seen, unique) ==
    IF results = <<>> THEN [seen |-> seen, unique |-> unique]
    ELSE IF Head(results).url \notin seen
         THEN Dedup(Tail(results), seen \cup {Head(results).url},
                    Append(unique, Head(results)))
         ELSE Dedup(Tail(results), seen, unique)

\* d[key] = val on an insertion-ordered dict.
DictSet(d, key, val) ==
    IF \E j \in 1..Len(d) : d[j].key = key
    THEN [j \in 1..Len(d) |-> IF d[j].key = key THEN [key |-> key, val |-> val] ELSE d[j]]
    ELSE Append(d, [key |-> key, val |-> val])

DictKeys(d) == {d[j].key : j \in 1..Len(d)}

DictGet(d, key) == d[CHOOSE j \in 1..Len(d) : d[j].key = key].val

\* sum(len(v) for v in results.values())
RECURSIVE Total(_)
Total(d) == IF d = <<>> THEN 0 ELSE Len(Head(d).val) + Total(Tail(d))

\* categories or list(KEYWORD_CATEGORIES.keys())
ResolveTargets(cats) ==
    IF cats.none \/ cats.names = <<>> THEN KEYWORD_CATEGORIES ELSE cats.names

UrlsOf(results) == {r.url : r \in Range(results)}

\* The mutant of EarlyReturn: the credential is never checked.
EarlyReturnNever(key) == FALSE

\* if not config.serpapi_key: return {}
EarlyReturn(key) == ~key

SearchEnter ==
    /\ pc = "search_enter"
    /\ IF EarlyReturn(serpapi_key)
       THEN /\ pc' = "search_returned"
            /\ all_results' = <<>>
            /\ UNCHANGED <<target_categories, cat_i, seen_urls>>
       ELSE /\ pc' = "search_loop"
            /\ target_categories' = ResolveTargets(categories)
            /\ cat_i' = 1
            /\ all_results' = <<>>
            /\ seen_urls' = {}
    /\ UNCHANGED <<requests, raw_of, first_cat, failed_ever, failed_last, removed>>
    /\ UNCHANGED <<argVars, parseVars, captureVars, mainVars>>

\* if cat_name not in KEYWORD_CATEGORIES: continue
SearchSkipUnknown ==
    /\ pc = "search_loop"
    /\ cat_i <= Len(target_categories)
    /\ target_categories[cat_i] \notin Known
    /\ cat_i' = cat_i + 1
    /\ UNCHANGED <<pc, target_categories, all_results, seen_urls, requests, raw_of,
                   first_cat, failed_ever, failed_last, removed>>
    /\ UNCHANGED <<argVars, parseVars, captureVars, mainVars>>

\* The mutant of StoreCategory: a failed request ends the loop.
StoreCategoryAbortOnFailure(cat_name, response) ==
    LET results == search_category(cat_name, response)
        d == Dedup(results, seen_urls, <<>>)
    IN  /\ all_results' = DictSet(all_results, cat_name, d.unique)
        /\ seen_urls' = d.seen
        /\ cat_i' = IF response.ok THEN cat_i + 1 ELSE Len(target_categories) + 1

\* One pass of the loop body for a known category: query, deduplicate, store.
StoreCategory(cat_name, response) ==
    LET results == search_category(cat_name, response)
        d == Dedup(results, seen_urls, <<>>)
    IN  /\ all_results' = DictSet(all_results, cat_name, d.unique)
        /\ seen_urls' = d.seen
        /\ cat_i' = cat_i + 1

SearchKnownCategory ==
    /\ pc = "search_loop"
    /\ cat_i <= Len(target_categories)
    /\ target_categories[cat_i] \in Known
    /\ \E response \in Responses :
          LET cat_name == target_categories[cat_i]
              got == UrlsOf(search_category(cat_name, response))
          IN  /\ StoreCategory(cat_name, response)
              /\ requests' = requests + 1
              /\ removed' = Len(search_category(cat_name, response))
                                - Len(DictGet(all_results', cat_name))
              /\ raw_of' = [raw_of EXCEPT ![cat_name] = @ \cup got]
              /\ first_cat' = [u \in Urls |->
                                  IF first_cat[u] = None /\ u \in got
                                  THEN cat_name ELSE first_cat[u]]
              /\ failed_ever' = IF response.ok THEN failed_ever
                                ELSE failed_ever \cup {cat_name}
              /\ failed_last' = IF response.ok THEN failed_last \ {cat_name}
                                ELSE failed_last \cup {cat_name}
    /\ UNCHANGED <<pc, target_categories>>
    /\ UNCHANGED <<argVars, parseVars, captureVars, mainVars>>

\* The loop is exhausted: return all_results.
SearchReturn ==
    /\ pc = "search_loop"
    /\ cat_i > Len(target_categories)
    /\ pc' = "search_returned"
    /\ UNCHANGED <<searchVars, argVars, parseVars, captureVars, mainVars>>

NextSearch ==
    \/ SearchEnter
    \/ SearchSkipUnknown
    \/ SearchKnownCategory
    \/ SearchReturn

CategoryArgs == {NoCategories} \cup {CategoryList(n) : n \in SeqsUpTo(CategoryNames, MaxCats)}

InitLocals ==
    /\ target_categories = <<>>
    /\ cat_i = 0
    /\ all_results = <<>>
    /\ seen_urls = {}
    /\ requests = 0
    /\ raw_of = [c \in Known |-> {}]
    /\ first_cat = [u \in Urls |-> None]
    /\ failed_ever = {}
    /\ failed_last = {}
    /\ removed = 0
    /\ screenshots = EmptyOutcome
    /\ idx = 0
    /\ cap_c = 0
    /\ cap_p = 0
    /\ output_path = NoPath
    /\ success = FALSE
    /\ playwright = "unchecked"
    /\ browser = "none"
    /\ selector_i = 0
    /\ sessions = {}
    /\ files = {}
    /\ calls = <<>>
    /\ capture_invoked = FALSE
    /\ delivered = <<>>
    /\ reported = FALSE
    /\ exit_code = -1
    /\ parsed = <<>>

\* A direct call search_all_categories(config, categories).
InitSearch ==
    /\ pc = "search_enter"
    /\ hits = [ok |-> TRUE, organic |-> <<>>]
    /\ serpapi_key \in BOOLEAN
    /\ categories \in CategoryArgs
    /\ dry_run = FALSE
    /\ no_screenshots = FALSE
    /\ InitLocals

SpecSearch == InitSearch /\ [][NextSearch]_vars

-----------------------------------------------------------------------------
(* search_category alone, on responses with more kinds of link *)

\* The links of RawLinks, and: a hit with no link (item.get("link", "")),
\* another site naming linkedin.com in its path, another site naming it in
\* its query string.
ParseLinks ==
    RawLinks \cup { <<>>,
                    <<"example.com", "linkedin.com">>,
                    <<"example.com", "?", "linkedin.com">> }

ParseResponses ==
    {[ok |-> FALSE, organic |-> <<>>]}
        \cup {[ok |-> TRUE, organic |-> o] : o \in SeqsUpTo(ParseLinks, MaxHits)}

\* results = search_category(cat_name, keywords, config) on the response.
ParseCall ==
    /\ pc = "parse_call"
    /\ parsed' = search_category(KEYWORD_CATEGORIES[1], hits)
    /\ pc' = "parse_returned"
    /\ UNCHANGED <<hits, searchVars, argVars, captureVars, mainVars>>

\* A direct call search_category(category, keywords, config).
InitParse ==
    /\ pc = "parse_call"
    /\ serpapi_key = TRUE
    /\ categories = NoCategories
    /\ dry_run = FALSE
    /\ no_screenshots = FALSE
    /\ InitLocals
    /\ hits \in ParseResponses

NextParse == ParseCall

SpecParse == InitParse /\ [][NextParse]_vars

-----------------------------------------------------------------------------
(* src/src/screenshot.py *)

\* The decimal digits of n, most significant first.
RECURSIVE Digits(_)
Digits(n) == IF n < 10 THEN <<n>> ELSE Digits(n \div 10) \o <<n % 10>>

\* f"{n:03d}": the digits of n, zero-padded on the left to three.
RECURSIVE ZeroPad(_)
ZeroPad(d) == IF Len(d) >= 3 THEN d ELSE ZeroPad(<<0>> \o d)

\* os.path.join(config.output_dir, f"post_{idx:03d}.png"), as the digits that
\* tell the paths apart.
OutputPath(n) == ZeroPad(Digits(n))

\* The post the batch is at.
CurrentPost == all_results[cap_c].val[cap_p]

\* screenshots = {}; idx = 0, and the loops begin.
CaptureEnter ==
    /\ pc = "cap_enter"
    /\ capture_invoked' = TRUE
    /\ screenshots' = EmptyOutcome
    /\ idx' = 0
    /\ cap_c' = 1
    /\ cap_p' = 1
    /\ pc' = "cap_loop"
    /\ UNCHANGED <<output_path, success, playwright, browser, selector_i, sessions,
                   files, calls>>
    /\ UNCHANGED <<searchVars, argVars, parseVars, mainVars>>

\* for category, posts in results.items(): the posts of one category are done.
CaptureNextCategory ==
    /\ pc = "cap_loop"
    /\ cap_c <= Len(all_results)
    /\ cap_p > Len(all_results[cap_c].val)
    /\ cap_c' = cap_c + 1
    /\ cap_p' = 1
    /\ UNCHANGED <<pc, screenshots, idx, output_path, success, playwright, browser,
                   selector_i, files, calls, capture_invoked, sessions>>
    /\ UNCHANGED <<searchVars, argVars, parseVars, mainVars>>

\* for post in posts: number the post, name its file, call capture_screenshot.
CaptureNextPost ==
    /\ pc = "cap_loop"
    /\ cap_c <= Len(all_results)
    /\ cap_p <= Len(all_results[cap_c].val)
    /\ idx' = idx + 1
    /\ output_path' = OutputPath(idx + 1)
    /\ pc' = "cs_import"
    /\ UNCHANGED <<screenshots, cap_c, cap_p, success, playwright, browser, selector_i,
                   files, calls, capture_invoked, sessions>>
    /\ UNCHANGED <<searchVars, argVars, parseVars, mainVars>>

\* Both loops are exhausted: return screenshots.
CaptureReturn ==
    /\ pc = "cap_loop"
    /\ cap_c > Len(all_results)
    /\ pc' = "cap_returned"
    /\ UNCHANGED <<searchVars, argVars, parseVars, captureVars, mainVars>>

\* A step of capture_screenshot that only moves on: to `next` when it
\* succeeds, to `handler` when it raises.
CsStep(at, next, handler) ==
    /\ pc = at
    /\ \E ok \in BOOLEAN : pc' = IF ok THEN next ELSE handler
    /\ UNCHANGED <<searchVars, argVars, parseVars, captureVars, mainVars>>

\* from playwright.async_api import async_playwright, ahead of the try: an
\* ImportError leaves capture_screenshot, the batch and main_async.
CsImport ==
    /\ pc = "cs_import"
    /\ \E found \in {"loaded", "missing"} :
          /\ playwright \in {"unchecked", found}
          /\ playwright' = found
          /\ pc' = IF found = "loaded" THEN "cs_start" ELSE "crashed"
    /\ UNCHANGED <<screenshots, idx, cap_c, cap_p, output_path, success, browser,
                   selector_i, files, calls, capture_invoked, sessions>>
    /\ UNCHANGED <<searchVars, argVars, parseVars, mainVars>>

\* async with async_playwright() as p: entering the context.
CsStart == CsStep("cs_start", "cs_launch", "cs_except")

\* browser = await p.chromium.launch(headless=True)
CsLaunch ==
    /\ pc = "cs_launch"
    /\ \E ok \in BOOLEAN :
          /\ pc' = IF ok THEN "cs_context" ELSE "cs_unwind"
          /\ browser' = IF ok THEN "open" ELSE browser
          /\ sessions' = IF ok THEN sessions \cup {idx} ELSE sessions
    /\ UNCHANGED <<screenshots, idx, cap_c, cap_p, output_path, success, playwright,
                   selector_i, files, calls, capture_invoked>>
    /\ UNCHANGED <<searchVars, argVars, parseVars, mainVars>>

\* context = await browser.new_context(...); page = await context.new_page()
CsContext == CsStep("cs_context", "cs_goto", "cs_unwind")

\* await page.goto(url, wait_until="networkidle", timeout=...)
CsGoto == CsStep("cs_goto", "cs_wait", "cs_unwind")

\* await page.wait_for_timeout(config.wait_seconds * 1000)
CsWait ==
    /\ pc = "cs_wait"
    /\ \E ok \in BOOLEAN :
          /\ pc' = IF ok THEN "cs_probe" ELSE "cs_unwind"
          /\ selector_i' = IF ok THEN 1 ELSE selector_i
    /\ UNCHANGED <<screenshots, idx, cap_c, cap_p, output_path, success, playwright,
                   browser, files, calls, capture_invoked, sessions>>
    /\ UNCHANGED <<searchVars, argVars, parseVars, mainVars>>

\* if await dismiss_btn.is_visible(timeout=2000): the probe of one selector;
\* an exception ends the whole dismissal loop (except Exception: pass).
CsProbe ==
    /\ pc = "cs_probe"
    /\ selector_i <= Len(Selectors)
    /\ \E seen \in {"visible", "absent", "error"} :
          /\ pc' = CASE seen = "visible" -> "cs_click"
                     [] seen = "absent" -> "cs_probe"
                     [] seen = "error" -> "cs_shot"
          /\ selector_i' = IF seen = "absent" THEN selector_i + 1 ELSE selector_i
    /\ UNCHANGED <<screenshots, idx, cap_c, cap_p, output_path, success, playwright,
                   browser, files, calls, capture_invoked, sessions>>
    /\ UNCHANGED <<searchVars, argVars, parseVars, mainVars>>

\* await dismiss_btn.click()
CsClick == CsStep("cs_click", "cs_pause", "cs_shot")

\* await page.wait_for_timeout(500), then the next selector.
CsPause ==
    /\ pc = "cs_pause"
    /\ \E ok \in BOOLEAN :
          /\ pc' = IF ok THEN "cs_probe" ELSE "cs_shot"
          /\ selector_i' = IF ok THEN selector_i + 1 ELSE selector_i
    /\ UNCHANGED <<screenshots, idx, cap_c, cap_p, output_path, success, playwright,
                   browser, files, calls, capture_invoked, sessions>>
    /\ UNCHANGED <<searchVars, argVars, parseVars, mainVars>>

\* The selector list is exhausted.
CsProbeDone ==
    /\ pc = "cs_probe"
    /\ selector_i > Len(Selectors)
    /\ pc' = "cs_shot"
    /\ UNCHANGED <<searchVars, argVars, parseVars, captureVars, mainVars>>

\* await page.screenshot(path=output_path, full_page=False)
CsShot ==
    /\ pc = "cs_shot"
    /\ \E ok \in BOOLEAN :
          /\ pc' = IF ok THEN "cs_close" ELSE "cs_unwind"
          /\ files' = IF ok THEN files \cup {output_path} ELSE files
    /\ UNCHANGED <<screenshots, idx, cap_c, cap_p, output_path, success, playwright,
                   browser, selector_i, calls, capture_invoked, sessions>>
    /\ UNCHANGED <<searchVars, argVars, parseVars, mainVars>>

\* await browser.close()
CsClose ==
    /\ pc = "cs_close"
    /\ \E ok \in BOOLEAN :
          /\ pc' = IF ok THEN "cs_exit" ELSE "cs_unwind"
          /\ browser' = IF ok THEN "closed" ELSE browser
          /\ sessions' = IF ok THEN sessions \ {idx} ELSE sessions
    /\ UNCHANGED <<screenshots, idx, cap_c, cap_p, output_path, success, playwright,
                   selector_i, files, calls, capture_invoked>>
    /\ UNCHANGED <<searchVars, argVars, parseVars, mainVars>>

\* return True, leaving the async with block: the exit of the context may raise.
CsExit ==
    /\ pc = "cs_exit"
    /\ \E ok \in BOOLEAN :
          /\ pc' = IF ok THEN "cap_record" ELSE "cs_except"
          /\ success' = IF ok THEN TRUE ELSE success
    /\ UNCHANGED <<screenshots, idx, cap_c, cap_p, output_path, playwright, browser,
                   selector_i, files, calls, capture_invoked, sessions>>
    /\ UNCHANGED <<searchVars, argVars, parseVars, mainVars>>

\* The mutant of CsUnwind: a plain try/except, with no context whose exit
\* stops the driver, so an exception leaves the launched browser running.
CsUnwindLeavesBrowser ==
    /\ pc = "cs_unwind"
    /\ pc' = "cs_except"
    /\ UNCHANGED <<searchVars, argVars, parseVars, captureVars, mainVars>>

\* An exception leaves the async with block: the exit of the context stops
\* the driver, and with it the browser it launched.
CsUnwind ==
    /\ pc = "cs_unwind"
    /\ browser' = IF browser = "open" THEN "closed" ELSE browser
    /\ sessions' = sessions \ {idx}
    /\ pc' = "cs_except"
    /\ UNCHANGED <<screenshots, idx, cap_c, cap_p, output_path, success, playwright,
                   selector_i, files, calls, capture_invoked>>
    /\ UNCHANGED <<searchVars, argVars, parseVars, mainVars>>

\* The mutant of CsExcept: the exception is not caught and leaves the batch.
CsExceptPropagates ==
    /\ pc = "cs_except"
    /\ pc' = "crashed"
    /\ UNCHANGED <<searchVars, argVars, parseVars, captureVars, mainVars>>

\* except Exception as e: log a warning, return False.
CsExcept ==
    /\ pc = "cs_except"
    /\ success' = FALSE
    /\ pc' = "cap_record"
    /\ UNCHANGED <<screenshots, idx, cap_c, cap_p, output_path, playwright, browser,
                   selector_i, files, calls, capture_invoked, sessions>>
    /\ UNCHANGED <<searchVars, argVars, parseVars, mainVars>>

\* The mutant of RecordOutcome: a failed capture leaves no entry.
RecordOutcomeOnSuccessOnly(outcome, url, path, ok) ==
    IF ok THEN [u \in DOMAIN outcome \cup {url} |-> IF u = url THEN path ELSE outcome[u]]
    ELSE outcome

\* screenshots[post.url] = output_path if success else None
RecordOutcome(outcome, url, path, ok) ==
    [u \in DOMAIN outcome \cup {url} |->
        IF u = url THEN (IF ok THEN path ELSE NoPath) ELSE outcome[u]]

\* capture_screenshot has returned to the batch, which records the outcome.
CaptureRecord ==
    /\ pc = "cap_record"
    /\ screenshots' = RecordOutcome(screenshots, CurrentPost.url, output_path, success)
    /\ calls' = Append(calls, [url |-> CurrentPost.url, output_path |-> output_path,
                               success |-> success])
    /\ cap_p' = cap_p + 1
    /\ browser' = "none"
    /\ pc' = "cap_loop"
    /\ UNCHANGED <<idx, cap_c, output_path, success, playwright, selector_i, files,
                   capture_invoked, sessions>>
    /\ UNCHANGED <<searchVars, argVars, parseVars, mainVars>>

NextCapture ==
    \/ CaptureEnter
    \/ CaptureNextCategory
    \/ CaptureNextPost
    \/ CaptureReturn
    \/ CsImport
    \/ CsStart
    \/ CsLaunch
    \/ CsContext
    \/ CsGoto
    \/ CsWait
    \/ CsProbe
    \/ CsClick
    \/ CsPause
    \/ CsProbeDone
    \/ CsShot
    \/ CsClose
    \/ CsExit
    \/ CsUnwind
    \/ CsExcept
    \/ CaptureRecord

-----------------------------------------------------------------------------
(* src/main.py *)

\* SearchConfig(...) is built and search_all_categories is called.
MainStart ==
    /\ pc = "main_start"
    /\ pc' = "search_enter"
    /\ UNCHANGED <<searchVars, argVars, parseVars, captureVars, mainVars>>

\* results = search_all_categories(...) is bound: the locals of the call and
\* the history kept of it end with its frame. Then total = sum(...); with no
\* result: report and return 0, else report.
MainAfterSearch ==
    /\ pc = "search_returned"
    /\ reported' = TRUE
    /\ IF Total(all_results) = 0
       THEN pc' = "done" /\ exit_code' = 0
       ELSE pc' = "main_dry" /\ exit_code' = exit_code
    /\ target_categories' = <<>>
    /\ cat_i' = 0
    /\ seen_urls' = {}
    /\ requests' = 0
    /\ raw_of' = [c \in Known |-> {}]
    /\ first_cat' = [u \in Urls |-> None]
    /\ failed_ever' = {}
    /\ failed_last' = {}
    /\ removed' = 0
    /\ UNCHANGED <<all_results, delivered, argVars, parseVars, captureVars>>

\* The mutant of DryRunExit: the flag is ignored.
DryRunIgnored(flag) == FALSE

\* if args.dry_run: print the JSON and return 0
DryRunExit(flag) == flag

MainDryRun ==
    /\ pc = "main_dry"
    /\ IF DryRunExit(dry_run)
       THEN pc' = "done" /\ exit_code' = 0
       ELSE pc' = "main_shots" /\ exit_code' = exit_code
    /\ UNCHANGED <<delivered, reported, searchVars, argVars, parseVars, captureVars>>

\* screenshots = {}; capture unless --no-screenshots.
MainScreenshots ==
    /\ pc = "main_shots"
    /\ screenshots' = EmptyOutcome
    /\ pc' = IF ~no_screenshots THEN "cap_enter" ELSE "main_send"
    /\ UNCHANGED <<idx, cap_c, cap_p, output_path, success, playwright, browser,
                   selector_i, files, calls, capture_invoked, sessions>>
    /\ UNCHANGED <<searchVars, argVars, parseVars, mainVars>>

\* The mutant of ExitCode: the pipeline reports success whatever delivery said.
ExitCodeAlwaysZero(sent) == 0

\* return 0 if success else 1
ExitCode(sent) == IF sent THEN 0 ELSE 1

\* success = send_email(results, screenshots, email_config), and the return.
MainSend ==
    /\ pc \in {"cap_returned", "main_send"}
    /\ \E sent \in BOOLEAN :
          /\ delivered' = Append(delivered, [results |-> all_results,
                                             screenshots |-> screenshots,
                                             returned |-> sent])
          /\ exit_code' = ExitCode(sent)
    /\ pc' = "done"
    /\ UNCHANGED <<reported, searchVars, argVars, parseVars, captureVars>>

NextMain ==
    \/ MainStart
    \/ MainAfterSearch
    \/ MainDryRun
    \/ MainScreenshots
    \/ MainSend

\* What argparse can hand to main_async: --categories takes one name or more.
MainCategoryArgs == {c \in CategoryArgs : c.none \/ c.names # <<>>}

Init ==
    /\ pc = "main_start"
    /\ hits = [ok |-> TRUE, organic |-> <<>>]
    /\ serpapi_key \in BOOLEAN
    /\ categories \in MainCategoryArgs
    /\ dry_run \in BOOLEAN
    /\ no_screenshots \in BOOLEAN
    /\ InitLocals

Next == NextMain \/ NextSearch \/ NextCapture

Spec == Init /\ [][Next]_vars

-----------------------------------------------------------------------------
(* Claims about search_all_categories *)

\* The results of every category, in ResultSet order.
RECURSIVE Flatten(_)
Flatten(d) == IF d = <<>> THEN <<>> ELSE Head(d).val \o Flatten(Tail(d))

\* The categories of the ResultSet whose list holds u.
Holders(u) == {j \in 1..Len(all_results) : u \in UrlsOf(all_results[j].val)}

\* The entries of the resolved list that name a configured category.
KnownEntries == {k \in 1..Len(target_categories) : target_categories[k] \in Known}

SearchReturned == pc = "search_returned" /\ serpapi_key

\* C1: a URL returned for two requested categories is, in the returned
\* ResultSet, in exactly one category's list, that of the category processed
\* first.
C1_SharedUrlKeptByFirstCategory ==
    SearchReturned =>
        \A u \in Urls : \A c1, c2 \in Known :
            (c1 # c2 /\ u \in raw_of[c1] /\ u \in raw_of[c2]) =>
                /\ Cardinality(Holders(u)) = 1
                /\ \A j \in Holders(u) : all_results[j].key = first_cat[u]

\* C2: with credentials, an empty list or a list of unknown names only
\* yields a ResultSet of zero results.
C2_EmptyOrUnknownListYieldsNothing ==
    (/\ SearchReturned
     /\ ~categories.none
     /\ \A k \in 1..Len(categories.names) : categories.names[k] \notin Known)
        => Total(all_results) = 0

\* The call went through the whole resolved category list before returning.
ProcessedList ==
    /\ target_categories = ResolveTargets(categories)
    /\ cat_i = Len(target_categories) + 1

\* C6: without the API key the call returns an empty ResultSet and issues no
\* provider request, and only without the key does it return before
\* processing the category list.
C6_MissingKeyIsTheOnlyEarlyReturn ==
    /\ ~serpapi_key => requests = 0
    /\ pc = "search_returned" =>
          /\ ~serpapi_key => all_results = <<>>
          /\ ~ProcessedList <=> ~serpapi_key

C6_Witness ==
    /\ pc = "search_returned"
    /\ ~serpapi_key
    /\ ~categories.none
    /\ \E k \in 1..Len(categories.names) : categories.names[k] \in Known

C10_NoUrlTwice ==
    LET f == Flatten(all_results)
    IN  \A m, n \in 1..Len(f) : m # n => f[m].url # f[n].url

\* A single request whose raw list repeated a URL has been stored.
C10_Witness ==
    /\ SearchReturned
    /\ requests = 1
    /\ removed > 0
    /\ Total(all_results) > 0

-----------------------------------------------------------------------------
(* Claims about capture_all_screenshots and capture_screenshot *)

\* The posts of the ResultSet in the order the batch visits them.
Posts == Flatten(all_results)

\* What the batch must hold for the k-th capture_screenshot call.
OwnOutcome(k) == IF calls[k].success THEN calls[k].output_path ELSE NoPath

\* C3: when capture_all_screenshots has returned, the CaptureOutcome has an
\* entry for exactly the URLs of the ResultSet, and each entry is the file
\* path assigned to that URL's post if its capture succeeded and the absence
\* marker if it failed.
C3_OneEntryPerUrl ==
    pc = "cap_returned" =>
        /\ DOMAIN screenshots = UrlsOf(Posts)
        /\ Len(calls) = Len(Posts)
        /\ \A k \in 1..Len(calls) :
              /\ calls[k].url = Posts[k].url
              /\ calls[k].output_path = OutputPath(k)
              /\ screenshots[calls[k].url] = OwnOutcome(k)

C3_Witness ==
    /\ pc = "cap_returned"
    /\ \E u, v \in DOMAIN screenshots : screenshots[u] = NoPath /\ screenshots[v] # NoPath

C8_NoFileOnFailure ==
    \A k \in 1..Len(calls) : ~calls[k].success => calls[k].output_path \notin files

-----------------------------------------------------------------------------
(* Claims about main_async *)

\* capture_all_screenshots or send_email has been called, or is being called.
CaptureOrDeliveryInvoked ==
    \/ capture_invoked
    \/ delivered # <<>>
    \/ pc \in {"cap_enter", "main_send"}

\* C5: capture and delivery are invoked only when the search returned a
\* result and dry-run is off; a run with no result, or a dry run, reports and
\* returns success with neither invoked.
C5_NoCaptureOrDeliveryWithoutResults ==
    /\ CaptureOrDeliveryInvoked => Total(all_results) > 0 /\ ~dry_run
    /\ (pc = "done" /\ (Total(all_results) = 0 \/ dry_run)) =>
          /\ exit_code = 0
          /\ reported
          /\ ~CaptureOrDeliveryInvoked
    /\ (pc = "crashed") => Total(all_results) > 0 /\ ~dry_run

C5_Witness ==
    /\ pc = "done"
    /\ dry_run
    /\ Total(all_results) > 0
    /\ exit_code = 0

-----------------------------------------------------------------------------
(* Further claims about capture_screenshot *)

\* C11: no exception raised by a step of capture_screenshot escapes it: the
\* call always returns to the batch.
C11_NoExceptionEscapes == pc # "crashed"

\* C12: when capture_screenshot returns, on success or on failure, the
\* browser session it opened has been torn down.
C12_SessionTornDownAtReturn ==
    pc = "cap_record" => browser # "open" /\ idx \notin sessions

\* A capture that failed after its browser was launched has returned.
C12_Witness ==
    /\ pc = "cap_record"
    /\ ~success
    /\ browser = "closed"
    /\ output_path \notin files

\* C13: at most one browser session is open at any moment, it belongs to
\* the running capture, and none is open when the next capture begins.
C13_CapturesNeverOverlap ==
    /\ Cardinality(sessions) <= 1
    /\ sessions \subseteq {idx}
    /\ pc \in {"cap_loop", "cs_import", "cap_returned"} => sessions = {}

\* The second capture begins after a first that failed past its snapshot.
C13_Witness ==
    /\ pc = "cs_import"
    /\ Len(calls) = 1
    /\ ~calls[1].success
    /\ calls[1].output_path \in files
    /\ sessions = {}

\* The selectors whose probe has been made when the snapshot is about to be
\* taken: selector_i is past the list, or stands at the selector whose
\* probe, click or pause raised.
ProbedSelectors ==
    1..(IF selector_i > Len(Selectors) THEN Len(Selectors) ELSE selector_i)

\* C14: every selector of the list has been probed, in list order, when the
\* snapshot is taken.
C14_EverySelectorProbedBeforeSnapshot ==
    pc = "cs_shot" => ProbedSelectors = 1..Len(Selectors)

-----------------------------------------------------------------------------
(* Further claims about search_all_categories *)

\* C16: every accepted URL the provider returned for a requested category
\* is in the returned ResultSet, and the seen URLs are the stored URLs.
C16_NoResultLost ==
    SearchReturned =>
        /\ \A c \in Known : raw_of[c] \subseteq UrlsOf(Flatten(all_results))
        /\ seen_urls = UrlsOf(Flatten(all_results))

-----------------------------------------------------------------------------
(* Claims about search_category *)

\* The link is on the target site: its host, the first token, is linkedin.com.
OnDomain(url) == url # <<>> /\ url[1] = "linkedin.com"

\* C15: search_category returns one result per raw hit whose link is on the
\* target site and none for any other hit, and no returned url keeps a
\* query string.
C15_OnlyOnDomainLinksReturned ==
    pc = "parse_returned" =>
        /\ \A k \in 1..Len(parsed) :
              OnDomain(parsed[k].url) /\ ~Contains(parsed[k].url, "?")
        /\ Len(parsed) =
              Cardinality({k \in 1..Len(hits.organic) : OnDomain(hits.organic[k])})

====
